---- MODULE Spec2Model ----
(***************************************************************************)
(* A model of the iterm2 client library: the connection diagnostics        *)
(* (CheckPrerequisites, RequestPermission, NewApp's error classification)  *)
(* and the Tab proxy's session resolution.                                 *)
(*                                                                         *)
(* Spec     : the diagnostics, run against a host whose process and socket *)
(*            file change at any moment.                                   *)
(* TabSpec  : Tab.ListSessions against every bulk listing the server can   *)
(*            answer with, up to MaxElems elements.                        *)
(***************************************************************************)
EXTENDS Integers, Sequences, FiniteSets, TLC

VARIABLES
    running,    \* the iTerm.app process is in the process list (pgrep succeeds)
    socket,     \* the socket file exists on disk
    homeDir,    \* os.UserHomeDir() succeeds
    op,         \* the library function the caller is in, or "idle"
    pc,         \* position inside that function
    probes,     \* the OS probes the current call has made, in order
    cpErr,      \* what CheckPrerequisites returned
    connErr,    \* the error client.New returned
    conn,       \* the Connection of the current call: "none", "open", "closed"
    attempts,   \* number of client.New calls of the current call
    closeErr,   \* what Connection.Close returned
    ret,        \* the error the function returned
    retApp,     \* the function returned an App holding the Connection
    listing,    \* the ListSessionsResponse the server answers with
    ttab,       \* the Tab proxy the operation is called on
    tpc,        \* position of the Tab operation
    tcalls,     \* the requests the Tab proxy sent, in order
    tsessions,  \* the Session proxies Tab.ListSessions returned
    terr,       \* the error the Tab operation returned
    top,        \* the operation called on the proxy
    tresp,      \* the statuses of the last answer the operation received
    tconn,      \* the Connection the proxies share: "open" or "closed"
    tcloses,    \* how many times the Connection's Close has been called
    tsent,      \* for each request sent, whether the send returned a response
    upSince,    \* the time since which the process has been running, or -1
    now,        \* time elapsed since WaitForITerm2 was called
    timeout,    \* the timeout WaitForITerm2 was given
    deadline,   \* its deadline
    tickPending, \* the ticker's channel holds a tick
    ticks,      \* ticks WaitForITerm2 has received
    busy        \* time the probe in progress has taken

diagVars == <<running, socket, homeDir, op, pc, probes, cpErr, connErr, conn,
              attempts, closeErr, ret, retApp>>
tabVars == <<listing, ttab, tpc, tcalls, tsessions, terr, top, tresp, tconn,
            tcloses, tsent>>
waitVars == <<now, timeout, deadline, tickPending, ticks, busy>>
vars == <<running, socket, homeDir, op, pc, probes, cpErr, connErr, conn,
          attempts, closeErr, ret, retApp, listing, ttab, tpc, tcalls, tsessions,
          terr, top, tresp, tconn, tcloses, tsent, upSince, now, timeout, deadline,
          tickPending, ticks, busy>>

(***************************************************************************)
(* Error text.  A message is a sequence of phrases; strings.Contains is    *)
(* the search for a contiguous run of phrases, strings.ToLower maps each   *)
(* phrase to its lower-case form.                                          *)
(***************************************************************************)
MaxMsgLen == 2

LowerPhrases ==
    {"no such file or directory", "connection refused", "python api",
     "is not enabled", "permission", "denied", "declined", "not authorized",
     "authorization", "some random error"}

MixedPhrases == {"Python API", "Connection Refused", "Not Authorized", "Declined"}

Phrases == LowerPhrases \cup MixedPhrases

ToLower(p) ==
    CASE p = "Python API" -> "python api"
      [] p = "Connection Refused" -> "connection refused"
      [] p = "Not Authorized" -> "not authorized"
      [] p = "Declined" -> "declined"
      [] OTHER -> p

stringsToLower(msg) == [i \in 1..Len(msg) |-> ToLower(msg[i])]

stringsContains(msg, pat) ==
    \E i \in 1..(Len(msg) - Len(pat) + 1) : SubSeq(msg, i, i + Len(pat) - 1) = pat

Messages == UNION {[1..n -> Phrases] : n \in 0..MaxMsgLen}

(***************************************************************************)
(* Error values.  obj tells the objects apart: the one client.New made     *)
(* and the ones fmt.Errorf allocates; unwraps is the sentinel a %w wraps.  *)
(***************************************************************************)
ErrITerm2NotRunning == "ErrITerm2NotRunning"
ErrPythonAPIDisabled == "ErrPythonAPIDisabled"
ErrPermissionDenied == "ErrPermissionDenied"

Sentinels == {ErrITerm2NotRunning, ErrPythonAPIDisabled, ErrPermissionDenied}

SentinelText(s) ==
    CASE s = ErrITerm2NotRunning -> "iTerm2 is not running"
      [] s = ErrPythonAPIDisabled -> "iTerm2 Python API is not enabled"
      [] s = ErrPermissionDenied -> "iTerm2 permission denied for this application"

Nil == [obj |-> "nil", unwraps |-> "none", msg |-> <<>>]

RawError(text) == [obj |-> "client.New", unwraps |-> "none", msg |-> text]

RawErrors == {RawError(m) : m \in Messages}

\* fmt.Errorf("%w: %v", sentinel, errMsg): the lower-cased text, not err.
Errorf_LowerCased(sentinel, err) ==
    [obj |-> "fmt.Errorf", unwraps |-> sentinel,
     msg |-> <<SentinelText(sentinel), ": ">> \o stringsToLower(err.msg)]

\* fmt.Errorf("%w: %v", sentinel, err)
Errorf(sentinel, err) ==
    [obj |-> "fmt.Errorf", unwraps |-> sentinel,
     msg |-> <<SentinelText(sentinel), ": ">> \o err.msg]

\* fmt.Errorf("%w: <detail>", sentinel)
ErrorfText(sentinel, detail) ==
    [obj |-> "fmt.Errorf", unwraps |-> sentinel,
     msg |-> <<SentinelText(sentinel), ": ", detail>>]

errorsIs(err, sentinel) == err.unwraps = sentinel

Category(err) ==
    IF err = Nil THEN "Ok"
    ELSE IF errorsIs(err, ErrITerm2NotRunning) THEN "NotRunning"
    ELSE IF errorsIs(err, ErrPythonAPIDisabled) THEN "EndpointDisabled"
    ELSE IF errorsIs(err, ErrPermissionDenied) THEN "PermissionDenied"
    ELSE "Other"

(***************************************************************************)
(* The classifier's predicates.                                            *)
(***************************************************************************)
\* isPermissionError matching the text as it came, without strings.ToLower.
isPermissionError_CaseSensitive(err) ==
    \/ stringsContains(err.msg, <<"permission">>)
    \/ stringsContains(err.msg, <<"denied">>)
    \/ stringsContains(err.msg, <<"declined">>)
    \/ stringsContains(err.msg, <<"not authorized">>)
    \/ stringsContains(err.msg, <<"authorization">>)

isPermissionError(err) ==
    LET errMsg == stringsToLower(err.msg) IN
        \/ stringsContains(errMsg, <<"permission">>)
        \/ stringsContains(errMsg, <<"denied">>)
        \/ stringsContains(errMsg, <<"declined">>)
        \/ stringsContains(errMsg, <<"not authorized">>)
        \/ stringsContains(errMsg, <<"authorization">>)

isPythonAPIError(err) ==
    LET errMsg == stringsToLower(err.msg) IN
        \/ stringsContains(errMsg, <<"python api", "is not enabled">>)
        \/ stringsContains(errMsg, <<"python api">>)

isSocketError(err) ==
    LET errMsg == stringsToLower(err.msg) IN
        \/ stringsContains(errMsg, <<"no such file or directory">>)
        \/ stringsContains(errMsg, <<"connection refused">>)

\* enhanceConnectionError without the liveness probe: a failed dial always
\* blames the process.
enhanceConnectionError_NoLivenessProbe(err, isRunning) ==
    IF isSocketError(err) THEN Errorf(ErrITerm2NotRunning, err)
    ELSE IF isPythonAPIError(err) THEN Errorf(ErrPythonAPIDisabled, err)
    ELSE IF isPermissionError(err) THEN Errorf(ErrPermissionDenied, err)
    ELSE err

\* enhanceConnectionError wrapping what it does not recognise.
enhanceConnectionError_WrapsUnknown(err, isRunning) ==
    IF isSocketError(err)
    THEN IF ~isRunning
         THEN Errorf(ErrITerm2NotRunning, err)
         ELSE Errorf(ErrPythonAPIDisabled, err)
    ELSE IF isPythonAPIError(err) THEN Errorf(ErrPythonAPIDisabled, err)
    ELSE Errorf(ErrPermissionDenied, err)

\* enhanceConnectionError testing isPythonAPIError before the socket patterns.
enhanceConnectionError_PythonAPIFirst(err, isRunning) ==
    IF isPythonAPIError(err) THEN Errorf(ErrPythonAPIDisabled, err)
    ELSE IF isSocketError(err)
    THEN IF ~isRunning
         THEN Errorf(ErrITerm2NotRunning, err)
         ELSE Errorf(ErrPythonAPIDisabled, err)
    ELSE IF isPermissionError(err) THEN Errorf(ErrPermissionDenied, err)
    ELSE err

\* isRunning is what the isITerm2Running() probe of line 68 answers.
enhanceConnectionError(err, isRunning) ==
    IF isSocketError(err)
    THEN IF ~isRunning
         THEN Errorf(ErrITerm2NotRunning, err)
         ELSE Errorf(ErrPythonAPIDisabled, err)
    ELSE IF isPythonAPIError(err) THEN Errorf(ErrPythonAPIDisabled, err)
    ELSE IF isPermissionError(err) THEN Errorf(ErrPermissionDenied, err)
    ELSE err

\* The error branch of RequestPermission with the permission test first.
requestPermissionError_PermissionFirst(err) ==
    IF isPermissionError(err) THEN Errorf(ErrPermissionDenied, err)
    ELSE IF isPythonAPIError(err) THEN Errorf(ErrPythonAPIDisabled, err)
    ELSE err

\* The error branch of RequestPermission.
requestPermissionError(err) ==
    IF isPythonAPIError(err) THEN Errorf(ErrPythonAPIDisabled, err)
    ELSE IF isPermissionError(err) THEN Errorf(ErrPermissionDenied, err)
    ELSE err

(***************************************************************************)
(* OS probes.                                                              *)
(***************************************************************************)
isITerm2Running == running

getSocketPathOk == homeDir

isPythonAPIEnabled == getSocketPathOk /\ socket

Probe(what, saw) == [what |-> what, saw |-> saw]

CloseError == [obj |-> "client.Close", unwraps |-> "none", msg |-> <<"close failed">>]

(***************************************************************************)
(* Initial states.                                                         *)
(***************************************************************************)
DiagIdle ==
    /\ op = "idle"
    /\ pc = "idle"
    /\ probes = <<>>
    /\ cpErr = Nil
    /\ connErr = Nil
    /\ conn = "none"
    /\ attempts = 0
    /\ closeErr = Nil
    /\ ret = Nil
    /\ retApp = FALSE

TabIdle ==
    /\ listing = <<>>
    /\ ttab = [id |-> "", windowID |-> ""]
    /\ tpc = "idle"
    /\ tcalls = <<>>
    /\ tsessions = <<>>
    /\ terr = Nil
    /\ top = ""
    /\ tresp = <<>>
    /\ tconn = "open"
    /\ tcloses = 0
    /\ tsent = <<>>

WaitIdle ==
    /\ now = 0
    /\ timeout = 0
    /\ deadline = 0
    /\ tickPending = FALSE
    /\ ticks = 0
    /\ busy = 0

Init ==
    /\ running \in BOOLEAN
    /\ upSince = IF running THEN 0 ELSE -1
    /\ socket \in BOOLEAN
    /\ homeDir \in BOOLEAN
    /\ DiagIdle
    /\ TabIdle
    /\ WaitIdle

(***************************************************************************)
(* The host: the process starts and exits, the socket file comes and goes, *)
(* at any moment.                                                          *)
(***************************************************************************)
ProcessStarts ==
    /\ ~running
    /\ running' = TRUE
    /\ upSince' = now
    /\ UNCHANGED <<socket, homeDir, op, pc, probes, cpErr, connErr, conn,
                   attempts, closeErr, ret, retApp>>
    /\ UNCHANGED tabVars
    /\ UNCHANGED waitVars

ProcessExits ==
    /\ running
    /\ running' = FALSE
    /\ upSince' = -1
    /\ UNCHANGED <<socket, homeDir, op, pc, probes, cpErr, connErr, conn,
                   attempts, closeErr, ret, retApp>>
    /\ UNCHANGED tabVars
    /\ UNCHANGED waitVars

SocketCreated ==
    /\ ~socket
    /\ socket' = TRUE
    /\ UNCHANGED <<running, homeDir, op, pc, probes, cpErr, connErr, conn,
                   attempts, closeErr, ret, retApp>>
    /\ UNCHANGED tabVars
    /\ UNCHANGED <<waitVars, upSince>>

SocketRemoved ==
    /\ socket
    /\ socket' = FALSE
    /\ UNCHANGED <<running, homeDir, op, pc, probes, cpErr, connErr, conn,
                   attempts, closeErr, ret, retApp>>
    /\ UNCHANGED tabVars
    /\ UNCHANGED <<waitVars, upSince>>

(***************************************************************************)
(* The caller enters one library function at a time.                       *)
(***************************************************************************)
CallCheckPrerequisites ==
    /\ op = "idle"
    /\ op' = "CheckPrerequisites"
    /\ pc' = "cp_running"
    /\ UNCHANGED <<running, socket, homeDir, probes, cpErr, connErr, conn,
                   attempts, closeErr, ret, retApp>>
    /\ UNCHANGED tabVars
    /\ UNCHANGED <<waitVars, upSince>>

CallRequestPermission ==
    /\ op = "idle"
    /\ op' = "RequestPermission"
    /\ pc' = "cp_running"
    /\ UNCHANGED <<running, socket, homeDir, probes, cpErr, connErr, conn,
                   attempts, closeErr, ret, retApp>>
    /\ UNCHANGED tabVars
    /\ UNCHANGED <<waitVars, upSince>>

CallNewApp ==
    /\ op = "idle"
    /\ op' = "NewApp"
    /\ pc' = "na_connect"
    /\ UNCHANGED <<running, socket, homeDir, probes, cpErr, connErr, conn,
                   attempts, closeErr, ret, retApp>>
    /\ UNCHANGED tabVars
    /\ UNCHANGED <<waitVars, upSince>>

\* The caller drops what the function returned.
Return ==
    /\ pc = "done"
    /\ op' = "idle"
    /\ pc' = "idle"
    /\ probes' = <<>>
    /\ cpErr' = Nil
    /\ connErr' = Nil
    /\ conn' = "none"
    /\ attempts' = 0
    /\ closeErr' = Nil
    /\ ret' = Nil
    /\ retApp' = FALSE
    /\ UNCHANGED <<running, socket, homeDir>>
    /\ UNCHANGED tabVars
    /\ UNCHANGED <<waitVars, upSince>>

(***************************************************************************)
(* CheckPrerequisites.                                                     *)
(***************************************************************************)
NotRunningError ==
    ErrorfText(ErrITerm2NotRunning, "iTerm2 process not found. Launch with: open -a iTerm")

\* The socket-path failure returned without a sentinel.
NoSocketPathError_Untyped ==
    [obj |-> "fmt.Errorf", unwraps |-> "none",
     msg |-> <<"could not determine socket path">>]

NoSocketPathError ==
    ErrorfText(ErrPythonAPIDisabled, "could not determine socket path")

SocketNotFoundError ==
    ErrorfText(ErrPythonAPIDisabled, "socket not found")

\* The first probe made and its answer not acted on.
CheckPrerequisites_Running_NoReturn ==
    /\ pc = "cp_running"
    /\ probes' = Append(probes, Probe("isITerm2Running", isITerm2Running))
    /\ pc' = "cp_socket"
    /\ UNCHANGED <<running, socket, homeDir, op, cpErr, connErr, conn, attempts,
                   closeErr, ret, retApp>>
    /\ UNCHANGED tabVars
    /\ UNCHANGED <<waitVars, upSince>>

\* if !isITerm2Running() { return ErrITerm2NotRunning }
CheckPrerequisites_Running ==
    /\ pc = "cp_running"
    /\ probes' = Append(probes, Probe("isITerm2Running", isITerm2Running))
    /\ IF ~isITerm2Running
       THEN cpErr' = NotRunningError /\ pc' = "cp_return"
       ELSE cpErr' = cpErr /\ pc' = "cp_socket"
    /\ UNCHANGED <<running, socket, homeDir, op, connErr, conn, attempts,
                   closeErr, ret, retApp>>
    /\ UNCHANGED tabVars
    /\ UNCHANGED <<waitVars, upSince>>

\* if !isPythonAPIEnabled() { ... } return nil
CheckPrerequisites_Socket ==
    /\ pc = "cp_socket"
    /\ probes' = Append(probes, Probe("isPythonAPIEnabled", isPythonAPIEnabled))
    /\ IF ~isPythonAPIEnabled
       THEN cpErr' = cpErr /\ pc' = "cp_recheck"
       ELSE cpErr' = Nil /\ pc' = "cp_return"
    /\ UNCHANGED <<running, socket, homeDir, op, connErr, conn, attempts,
                   closeErr, ret, retApp>>
    /\ UNCHANGED tabVars
    /\ UNCHANGED <<waitVars, upSince>>

\* The missing socket blamed without the re-check of the process.
CheckPrerequisites_Recheck_Skipped ==
    /\ pc = "cp_recheck"
    /\ cpErr' = IF ~getSocketPathOk THEN NoSocketPathError ELSE SocketNotFoundError
    /\ pc' = "cp_return"
    /\ UNCHANGED <<running, socket, homeDir, op, probes, connErr, conn, attempts,
                   closeErr, ret, retApp>>
    /\ UNCHANGED tabVars
    /\ UNCHANGED <<waitVars, upSince>>

\* the re-check of the process, then the ErrPythonAPIDisabled returns
CheckPrerequisites_Recheck ==
    /\ pc = "cp_recheck"
    /\ probes' = Append(probes, Probe("isITerm2Running", isITerm2Running))
    /\ cpErr' = IF ~isITerm2Running THEN NotRunningError
                ELSE IF ~getSocketPathOk THEN NoSocketPathError
                ELSE SocketNotFoundError
    /\ pc' = "cp_return"
    /\ UNCHANGED <<running, socket, homeDir, op, connErr, conn, attempts,
                   closeErr, ret, retApp>>
    /\ UNCHANGED tabVars
    /\ UNCHANGED <<waitVars, upSince>>

\* CheckPrerequisites called by the caller returns to it.
CheckPrerequisites_Return ==
    /\ op = "CheckPrerequisites"
    /\ pc = "cp_return"
    /\ ret' = cpErr
    /\ pc' = "done"
    /\ UNCHANGED <<running, socket, homeDir, op, probes, cpErr, connErr, conn,
                   attempts, closeErr, retApp>>
    /\ UNCHANGED tabVars
    /\ UNCHANGED <<waitVars, upSince>>

(***************************************************************************)
(* RequestPermission.                                                      *)
(***************************************************************************)
\* The result of CheckPrerequisites dropped: the connection is tried anyway.
RequestPermission_Prerequisites_Ignored ==
    /\ op = "RequestPermission"
    /\ pc = "cp_return"
    /\ pc' = "rp_connect"
    /\ UNCHANGED <<running, socket, homeDir, op, probes, cpErr, connErr, conn,
                   attempts, closeErr, ret, retApp>>
    /\ UNCHANGED tabVars
    /\ UNCHANGED <<waitVars, upSince>>

\* if err := CheckPrerequisites(appName); err != nil { return err }
RequestPermission_Prerequisites ==
    /\ op = "RequestPermission"
    /\ pc = "cp_return"
    /\ IF cpErr # Nil
       THEN ret' = cpErr /\ pc' = "done"
       ELSE ret' = ret /\ pc' = "rp_connect"
    /\ UNCHANGED <<running, socket, homeDir, op, probes, cpErr, connErr, conn,
                   attempts, closeErr, retApp>>
    /\ UNCHANGED tabVars
    /\ UNCHANGED <<waitVars, upSince>>

\* c, err := client.New(appName)
RequestPermission_Connect ==
    /\ op = "RequestPermission"
    /\ pc = "rp_connect"
    /\ attempts' = attempts + 1
    /\ \/ /\ conn' = "open"
          /\ connErr' = Nil
          /\ pc' = "rp_close"
       \/ \E e \in RawErrors :
            /\ conn' = conn
            /\ connErr' = e
            /\ pc' = "rp_error"
    /\ UNCHANGED <<running, socket, homeDir, op, probes, cpErr, closeErr, ret, retApp>>
    /\ UNCHANGED tabVars
    /\ UNCHANGED <<waitVars, upSince>>

\* if err != nil { ... return }
RequestPermission_Error ==
    /\ pc = "rp_error"
    /\ ret' = requestPermissionError(connErr)
    /\ pc' = "done"
    /\ UNCHANGED <<running, socket, homeDir, op, probes, cpErr, connErr, conn,
                   attempts, closeErr, retApp>>
    /\ UNCHANGED tabVars
    /\ UNCHANGED <<waitVars, upSince>>

\* return c.Close(): the close error reaches the caller.
RequestPermission_Close_ReturnsCloseErr ==
    /\ pc = "rp_close"
    /\ conn' = "closed"
    /\ \E e \in {Nil, CloseError} : closeErr' = e /\ ret' = e
    /\ pc' = "done"
    /\ UNCHANGED <<running, socket, homeDir, op, probes, cpErr, connErr,
                   attempts, retApp>>
    /\ UNCHANGED tabVars
    /\ UNCHANGED <<waitVars, upSince>>

\* _ = c.Close(); return nil
RequestPermission_Close ==
    /\ pc = "rp_close"
    /\ conn' = "closed"
    /\ closeErr' \in {Nil, CloseError}
    /\ ret' = Nil
    /\ pc' = "done"
    /\ UNCHANGED <<running, socket, homeDir, op, probes, cpErr, connErr,
                   attempts, retApp>>
    /\ UNCHANGED tabVars
    /\ UNCHANGED <<waitVars, upSince>>

(***************************************************************************)
(* NewApp.                                                                 *)
(***************************************************************************)
\* c, err := client.New(name); on success return &app{c: c}, nil
NewApp_Connect ==
    /\ pc = "na_connect"
    /\ attempts' = attempts + 1
    /\ \/ /\ conn' = "open"
          /\ connErr' = Nil
          /\ retApp' = TRUE
          /\ pc' = "done"
       \/ \E e \in RawErrors :
            /\ conn' = conn
            /\ connErr' = e
            /\ retApp' = retApp
            /\ pc' = "na_enhance"
    /\ UNCHANGED <<running, socket, homeDir, op, probes, cpErr, closeErr, ret>>
    /\ UNCHANGED tabVars
    /\ UNCHANGED <<waitVars, upSince>>

\* return nil, enhanceConnectionError(err, name)
NewApp_Enhance ==
    /\ pc = "na_enhance"
    /\ probes' = IF isSocketError(connErr)
                 THEN Append(probes, Probe("isITerm2Running", isITerm2Running))
                 ELSE probes
    /\ ret' = enhanceConnectionError(connErr, isITerm2Running)
    /\ pc' = "done"
    /\ UNCHANGED <<running, socket, homeDir, op, cpErr, connErr, conn,
                   attempts, closeErr, retApp>>
    /\ UNCHANGED tabVars
    /\ UNCHANGED <<waitVars, upSince>>

Next ==
    \/ ProcessStarts
    \/ ProcessExits
    \/ SocketCreated
    \/ SocketRemoved
    \/ CallCheckPrerequisites
    \/ CallRequestPermission
    \/ CallNewApp
    \/ Return
    \/ CheckPrerequisites_Running
    \/ CheckPrerequisites_Socket
    \/ CheckPrerequisites_Recheck
    \/ CheckPrerequisites_Return
    \/ RequestPermission_Prerequisites
    \/ RequestPermission_Connect
    \/ RequestPermission_Error
    \/ RequestPermission_Close
    \/ NewApp_Connect
    \/ NewApp_Enhance

Spec == Init /\ [][Next]_vars

(***************************************************************************)
(* The bulk session listing.  A ListSessionsResponse is a sequence of      *)
(* windows, a window a window_id and a sequence of tabs, a tab a tab_id    *)
(* and the links of its root SplitTreeNode; a link holds a SessionSummary  *)
(* or a nested SplitTreeNode, whose links hold sessions.                   *)
(***************************************************************************)
MaxElems == 6

WindowIds == {"w1", "w2"}

TabIds == {"t1", "t2"}

SessionIds == {"s1", "s2"}

SessionLink(s) == [child |-> "session", uniqueIdentifier |-> s, links |-> <<>>]

NodeLink(ls) == [child |-> "node", uniqueIdentifier |-> "", links |-> ls]

RECURSIVE Sum(_)
Sum(ns) == IF ns = <<>> THEN 0 ELSE Head(ns) + Sum(Tail(ns))

RECURSIVE Concat(_)
Concat(ss) == IF ss = <<>> THEN <<>> ELSE Head(ss) \o Concat(Tail(ss))

\* the windows, tabs and links of a response, counted
Elems(lsr) ==
    Sum([w \in 1..Len(lsr) |->
        1 + Sum([t \in 1..Len(lsr[w].tabs) |->
            1 + Sum([k \in 1..Len(lsr[w].tabs[t].links) |->
                1 + Len(lsr[w].tabs[t].links[k].links)])])])

\* link.GetSession().GetUniqueIdentifier(): a link whose child is a node has no
\* session, and the getters of a nil message answer the empty string.
GetSessionUniqueIdentifier(link) ==
    IF link.child = "session" THEN link.uniqueIdentifier ELSE ""

\* Tab.ListSessions on a response: the three nested loops.
\* Skips the comparison of the window identifier.
tabListSessions_AnyWindow(t, lsr) ==
    Concat([w \in 1..Len(lsr) |->
        Concat([i \in 1..Len(lsr[w].tabs) |->
            IF lsr[w].tabs[i].id # t.id THEN <<>>
            ELSE [k \in 1..Len(lsr[w].tabs[i].links) |->
                     [id |-> GetSessionUniqueIdentifier(lsr[w].tabs[i].links[k])]]])])

tabListSessions(t, lsr) ==
    Concat([w \in 1..Len(lsr) |->
        IF lsr[w].id # t.windowID THEN <<>>
        ELSE Concat([i \in 1..Len(lsr[w].tabs) |->
            IF lsr[w].tabs[i].id # t.id THEN <<>>
            ELSE [k \in 1..Len(lsr[w].tabs[i].links) |->
                     [id |-> GetSessionUniqueIdentifier(lsr[w].tabs[i].links[k])]]])])

TransportError == [obj |-> "client.Call", unwraps |-> "none", msg |-> <<"transport error">>]

\* fmt.Errorf("<context>"): the error of the send left out.
WrapTransport_DropsCause(context, err) ==
    [obj |-> "fmt.Errorf", unwraps |-> "none", msg |-> <<context>>]

\* fmt.Errorf("<context>: %w", err)
WrapTransport(context, err) ==
    [obj |-> "fmt.Errorf", unwraps |-> "none", msg |-> <<context, ": ">> \o err.msg]

TabInit ==
    /\ running = FALSE
    /\ upSince = -1
    /\ socket = FALSE
    /\ homeDir = TRUE
    /\ DiagIdle
    /\ TabIdle
    /\ WaitIdle

(***************************************************************************)
(* The server composes its answer, element by element in the order of the  *)
(* message.                                                                *)
(***************************************************************************)
Last(seq) == seq[Len(seq)]

SetLast(seq, v) == [seq EXCEPT ![Len(seq)] = v]

Server_AddWindow ==
    /\ tpc = "idle"
    /\ Elems(listing) < MaxElems
    /\ \E w \in WindowIds : listing' = Append(listing, [id |-> w, tabs |-> <<>>])
    /\ UNCHANGED <<ttab, tpc, tcalls, tsessions, terr, top, tresp, tconn, tcloses,
                   tsent>>
    /\ UNCHANGED diagVars
    /\ UNCHANGED <<waitVars, upSince>>

Server_AddTab ==
    /\ tpc = "idle"
    /\ Elems(listing) < MaxElems
    /\ listing # <<>>
    /\ \E t \in TabIds :
         listing' = SetLast(listing,
             [Last(listing) EXCEPT !.tabs = Append(@, [id |-> t, links |-> <<>>])])
    /\ UNCHANGED <<ttab, tpc, tcalls, tsessions, terr, top, tresp, tconn, tcloses,
                   tsent>>
    /\ UNCHANGED diagVars
    /\ UNCHANGED <<waitVars, upSince>>

\* a link of the last tab's root node: a session, or a nested node
Server_AddLink ==
    /\ tpc = "idle"
    /\ Elems(listing) < MaxElems
    /\ listing # <<>>
    /\ Last(listing).tabs # <<>>
    /\ \E l \in {SessionLink(s) : s \in SessionIds} \cup {NodeLink(<<>>)} :
         listing' = SetLast(listing,
             [Last(listing) EXCEPT !.tabs = SetLast(@,
                 [Last(@) EXCEPT !.links = Append(@, l)])])
    /\ UNCHANGED <<ttab, tpc, tcalls, tsessions, terr, top, tresp, tconn, tcloses,
                   tsent>>
    /\ UNCHANGED diagVars
    /\ UNCHANGED <<waitVars, upSince>>

\* a session inside the nested node that is the last link of the last tab
Server_AddNestedSession ==
    /\ tpc = "idle"
    /\ Elems(listing) < MaxElems
    /\ listing # <<>>
    /\ Last(listing).tabs # <<>>
    /\ Last(Last(listing).tabs).links # <<>>
    /\ Last(Last(Last(listing).tabs).links).child = "node"
    /\ \E s \in SessionIds :
         listing' = SetLast(listing,
             [Last(listing) EXCEPT !.tabs = SetLast(@,
                 [Last(@) EXCEPT !.links = SetLast(@,
                     [Last(@) EXCEPT !.links = Append(@, SessionLink(s))])])])
    /\ UNCHANGED <<ttab, tpc, tcalls, tsessions, terr, top, tresp, tconn, tcloses,
                   tsent>>
    /\ UNCHANGED diagVars
    /\ UNCHANGED <<waitVars, upSince>>

(***************************************************************************)
(* The requests a Tab proxy sends and the answers it gets.  A send on the  *)
(* open connection returns a response or a transport error.                *)
(***************************************************************************)
Request(req, target, assignments, force, invocation) ==
    [req |-> req, target |-> target, assignments |-> assignments,
     force |-> force, invocation |-> invocation]

ListSessionsRequest == Request("ListSessionsRequest", <<>>, <<>>, FALSE, "")

Colors == {<<255, 0, 0>>, <<0, 128, 255>>}

\* fmt.Sprintf("%f", float64(v)/255.0): six decimals, rounded; the digits after
\* "0." (or 1000000 for 1.000000).
FormatComponent(v) == ToString((2 * v * 1000000 + 255) \div 510)

colorJSON(c) ==
    <<"Red Component", FormatComponent(c[1]),
      "Green Component", FormatComponent(c[2]),
      "Blue Component", FormatComponent(c[3])>>

Assignment(key, jsonValue) == [key |-> key, jsonValue |-> jsonValue]

\* The request targets the last session of the list.
SetProfilePropertyRequest_LastSession(sessions, c) ==
    Request("SetProfilePropertyRequest", <<sessions[Len(sessions)].id>>,
            <<Assignment("Tab Color", colorJSON(c)),
              Assignment("Use Tab Color", <<"true">>)>>, FALSE, "")

SetProfilePropertyRequest(sessions, c) ==
    Request("SetProfilePropertyRequest", <<sessions[1].id>>,
            <<Assignment("Tab Color", colorJSON(c)),
              Assignment("Use Tab Color", <<"true">>)>>, FALSE, "")

CloseRequest(t) == Request("CloseRequest", <<t.id>>, <<>>, FALSE, "")

SetProfilePropertyStatuses == {"OK", "SESSION_NOT_FOUND"}

CloseStatuses == {"OK", "NOT_FOUND", "USER_DECLINED"}

\* The server has a tab of this id.
TabIdExists(lsr, id) ==
    \E w \in 1..Len(lsr) : \E i \in 1..Len(lsr[w].tabs) : lsr[w].tabs[i].id = id

\* The server's state after it closed the tabs of this id.
RemoveTab(lsr, id) ==
    [w \in 1..Len(lsr) |->
        [lsr[w] EXCEPT !.tabs = SelectSeq(@, LAMBDA tb : tb.id # id)]]

\* The answer of the server to a CloseRequest naming one tab id: one status,
\* NOT_FOUND when it has no such tab.
ServerCloseStatuses(lsr, id) ==
    IF TabIdExists(lsr, id) THEN {<<s>> : s \in CloseStatuses} ELSE {<<"NOT_FOUND">>}

\* answers with no status entry, or with more entries than ids were named
MalformedCloseStatuses == {<<>>, <<"OK", "NOT_FOUND">>, <<"NOT_FOUND", "OK">>}

CloseStatusSeqs(lsr, id) == ServerCloseStatuses(lsr, id) \cup MalformedCloseStatuses

\* Call returns a response (TRUE) or an error (FALSE)
CallOutcomes == BOOLEAN

\* a send on a closed connection returns a transport error
ClosedCallOutcomes == {FALSE}

CallOk == IF tconn = "open" THEN CallOutcomes ELSE ClosedCallOutcomes

NoSessionsError_Nil(t) == Nil

\* fmt.Errorf("tab %q has no sessions", t.id)
NoSessionsError(t) ==
    [obj |-> "fmt.Errorf", unwraps |-> "none", msg |-> <<"tab", t.id, "has no sessions">>]

closeResult_IgnoresStatus(t, statuses) == Nil

\* Close failing for a status other than OK anywhere in the answer.
closeResult_AnyStatus(t, statuses) ==
    IF \E i \in 1..Len(statuses) : statuses[i] # "OK"
    THEN [obj |-> "fmt.Errorf", unwraps |-> "none",
          msg |-> <<"failed to close tab", t.id, ": status",
                    statuses[CHOOSE i \in 1..Len(statuses) : statuses[i] # "OK"]>>]
    ELSE Nil

\* what Close returns for the statuses of the answer
closeResult(t, statuses) ==
    IF Len(statuses) > 0 /\ statuses[1] # "OK"
    THEN [obj |-> "fmt.Errorf", unwraps |-> "none",
          msg |-> <<"failed to close tab", t.id, ": status", statuses[1]>>]
    ELSE Nil

Tabs == [id : TabIds, windowID : WindowIds]

(***************************************************************************)
(* Tab.ListSessions: one ListSessionsRequest, then the walk of the answer. *)
(***************************************************************************)
Tab_ListSessions ==
    /\ tpc = "idle"
    /\ top' = "ListSessions"
    /\ tcalls' = <<ListSessionsRequest>>
    /\ tresp' = <<>>
    /\ \E t \in Tabs, ok \in CallOk :
         /\ ttab' = t
         /\ tsent' = <<ok>>
         /\ IF ok
            THEN /\ tsessions' = tabListSessions(t, listing)
                 /\ terr' = Nil
            ELSE /\ tsessions' = <<>>
                 /\ terr' = WrapTransport("error listing sessions for tab", TransportError)
    /\ tpc' = "done"
    /\ UNCHANGED <<listing, tconn, tcloses>>
    /\ UNCHANGED diagVars
    /\ UNCHANGED <<waitVars, upSince>>

(***************************************************************************)
(* Tab.SetColor: ListSessions, then one SetProfilePropertyRequest for the  *)
(* first session.  The answer to it is dropped.                            *)
(***************************************************************************)
Tab_SetColor ==
    /\ tpc = "idle"
    /\ top' = "SetColor"
    /\ \E t \in Tabs, c \in Colors, listOk \in CallOk :
         /\ ttab' = t
         /\ IF ~listOk
            THEN /\ tsessions' = <<>>
                 /\ tcalls' = <<ListSessionsRequest>>
                 /\ tsent' = <<FALSE>>
                 /\ tresp' = <<>>
                 /\ terr' = WrapTransport("could not list sessions for tab",
                               WrapTransport("error listing sessions for tab",
                                             TransportError))
            ELSE /\ tsessions' = tabListSessions(t, listing)
                 /\ IF Len(tabListSessions(t, listing)) = 0
                    THEN /\ tcalls' = <<ListSessionsRequest>>
                         /\ tsent' = <<TRUE>>
                         /\ tresp' = <<>>
                         /\ terr' = NoSessionsError(t)
                    ELSE /\ tcalls' = <<ListSessionsRequest,
                                        SetProfilePropertyRequest(
                                            tabListSessions(t, listing), c)>>
                         /\ \E ok \in CallOk :
                              /\ tsent' = <<TRUE, ok>>
                              /\ IF ok
                                 THEN /\ \E s \in SetProfilePropertyStatuses :
                                           tresp' = <<s>>
                                      /\ terr' = Nil
                                 ELSE /\ tresp' = <<>>
                                      /\ terr' = WrapTransport(
                                           "could not set color for tab", TransportError)
    /\ tpc' = "done"
    /\ UNCHANGED <<listing, tconn, tcloses>>
    /\ UNCHANGED diagVars
    /\ UNCHANGED <<waitVars, upSince>>

(***************************************************************************)
(* Tab.Close: one CloseRequest; the first status of the answer decides.    *)
(***************************************************************************)
Tab_Close ==
    /\ tpc = "idle"
    /\ top' = "Close"
    /\ tsessions' = <<>>
    /\ \E t \in Tabs, ok \in CallOk :
         /\ ttab' = t
         /\ tcalls' = <<CloseRequest(t)>>
         /\ tsent' = <<ok>>
         /\ IF ok
            THEN \E statuses \in CloseStatusSeqs(listing, t.id) :
                    /\ tresp' = statuses
                    /\ terr' = closeResult(t, statuses)
                    /\ listing' = IF Len(statuses) > 0 /\ statuses[1] = "OK"
                                  THEN RemoveTab(listing, t.id)
                                  ELSE listing
            ELSE /\ tresp' = <<>>
                 /\ terr' = WrapTransport("could not close tab", TransportError)
                 /\ listing' = listing
    /\ tpc' = "done"
    /\ UNCHANGED <<tconn, tcloses>>
    /\ UNCHANGED diagVars
    /\ UNCHANGED <<waitVars, upSince>>

\* The caller drops the result; the server's state stays.
Tab_Return ==
    /\ tpc = "done"
    /\ tpc' = "idle"
    /\ top' = ""
    /\ ttab' = [id |-> "", windowID |-> ""]
    /\ tcalls' = <<>>
    /\ tresp' = <<>>
    /\ tsent' = <<>>
    /\ tsessions' = <<>>
    /\ terr' = Nil
    /\ UNCHANGED <<listing, tconn, tcloses>>
    /\ UNCHANGED diagVars
    /\ UNCHANGED <<waitVars, upSince>>

TabNext ==
    \/ Server_AddWindow
    \/ Server_AddTab
    \/ Server_AddLink
    \/ Server_AddNestedSession
    \/ Tab_ListSessions
    \/ Tab_SetColor
    \/ Tab_Close
    \/ Tab_Return

TabSpec == TabInit /\ [][TabNext]_vars

(***************************************************************************)
(* The Application and the proxies made from it share one Connection.      *)
(* Application.Close closes it; every other operation sends on it.         *)
(***************************************************************************)
MaxCloses == 2

Titles == {"build", "logs"}

MenuItems == {"Shell/New Tab", "View/Zoom In"}

ActivateStatuses == {"OK", "BAD_IDENTIFIER"}

CreateTabStatuses == {"OK", "INVALID_PROFILE_NAME"}

MenuItemStatuses == {"OK", "DISABLED"}

\* what close() returns on a Connection that is closed already
ClosedCloseOutcomes == {Nil, CloseError}

AppListing ==
    <<[id |-> "w1", tabs |-> <<[id |-> "t1", links |-> <<SessionLink("s1")>>]>>]>>

StatusError(context, subject, status) ==
    [obj |-> "fmt.Errorf", unwraps |-> "none", msg |-> <<context, subject, status>>]

setTitleResult_IgnoresError(ok) == Nil

\* what SetTitle returns when its send returned a response (ok) or an error
setTitleResult(ok) ==
    IF ok THEN Nil ELSE WrapTransport("could not call set_title", TransportError)

AppInit ==
    /\ running = TRUE
    /\ upSince = 0
    /\ socket = TRUE
    /\ homeDir = TRUE
    /\ DiagIdle
    /\ WaitIdle
    /\ listing = AppListing
    /\ ttab = [id |-> "", windowID |-> ""]
    /\ tpc = "idle"
    /\ tcalls = <<>>
    /\ tsessions = <<>>
    /\ terr = Nil
    /\ top = ""
    /\ tresp = <<>>
    /\ tconn = "open"
    /\ tcloses = 0
    /\ tsent = <<>>

App_Activate ==
    /\ tpc = "idle"
    /\ top' = "Activate"
    /\ tsessions' = <<>>
    /\ \E raiseAllWindows \in BOOLEAN, ignoreOtherApps \in BOOLEAN :
         tcalls' = <<Request("ActivateRequest", <<>>,
                       <<Assignment("OrderWindowFront", <<ToString(TRUE)>>),
                         Assignment("RaiseAllWindows", <<ToString(raiseAllWindows)>>),
                         Assignment("IgnoringOtherApps", <<ToString(ignoreOtherApps)>>)>>,
                       FALSE, "")>>
    /\ \E ok \in CallOk :
         /\ tsent' = <<ok>>
         /\ IF ok
            THEN /\ \E s \in ActivateStatuses : tresp' = <<s>>
                 /\ terr' = Nil
            ELSE /\ tresp' = <<>>
                 /\ terr' = TransportError
    /\ tpc' = "done"
    /\ UNCHANGED <<listing, ttab, tconn, tcloses>>
    /\ UNCHANGED diagVars
    /\ UNCHANGED <<waitVars, upSince>>

App_CreateWindow ==
    /\ tpc = "idle"
    /\ top' = "CreateWindow"
    /\ tcalls' = <<Request("CreateTabRequest", <<>>, <<>>, FALSE, "")>>
    /\ \E ok \in CallOk :
         /\ tsent' = <<ok>>
         /\ IF ok
            THEN \E s \in CreateTabStatuses :
                    /\ tresp' = <<s>>
                    /\ IF s # "OK"
                       THEN /\ tsessions' = <<>>
                            /\ terr' = StatusError("unexpected window tab status", ":", s)
                       ELSE /\ \E w \in WindowIds : tsessions' = <<[id |-> w]>>
                            /\ terr' = Nil
            ELSE /\ tresp' = <<>>
                 /\ tsessions' = <<>>
                 /\ terr' = WrapTransport("could not create window tab", TransportError)
    /\ tpc' = "done"
    /\ UNCHANGED <<listing, ttab, tconn, tcloses>>
    /\ UNCHANGED diagVars
    /\ UNCHANGED <<waitVars, upSince>>

App_ListWindows ==
    /\ tpc = "idle"
    /\ top' = "ListWindows"
    /\ tcalls' = <<ListSessionsRequest>>
    /\ tresp' = <<>>
    /\ \E ok \in CallOk :
         /\ tsent' = <<ok>>
         /\ IF ok
            THEN /\ tsessions' = [i \in 1..Len(listing) |-> [id |-> listing[i].id]]
                 /\ terr' = Nil
            ELSE /\ tsessions' = <<>>
                 /\ terr' = WrapTransport("could not list sessions", TransportError)
    /\ tpc' = "done"
    /\ UNCHANGED <<listing, ttab, tconn, tcloses>>
    /\ UNCHANGED diagVars
    /\ UNCHANGED <<waitVars, upSince>>

App_SelectMenuItem ==
    /\ tpc = "idle"
    /\ top' = "SelectMenuItem"
    /\ tsessions' = <<>>
    /\ \E item \in MenuItems, ok \in CallOk :
         /\ tcalls' = <<Request("MenuItemRequest", <<item>>, <<>>, FALSE, "")>>
         /\ tsent' = <<ok>>
         /\ IF ok
            THEN \E s \in MenuItemStatuses :
                    /\ tresp' = <<s>>
                    /\ terr' = IF s # "OK"
                               THEN StatusError("menu item returned unexpected status",
                                                item, s)
                               ELSE Nil
            ELSE /\ tresp' = <<>>
                 /\ terr' = WrapTransport("error selecting menu item", TransportError)
    /\ tpc' = "done"
    /\ UNCHANGED <<listing, ttab, tconn, tcloses>>
    /\ UNCHANGED diagVars
    /\ UNCHANGED <<waitVars, upSince>>

\* return a.c.Close()
App_Close ==
    /\ tpc = "idle"
    /\ tcloses < MaxCloses
    /\ top' = "App.Close"
    /\ ttab' = [id |-> "", windowID |-> ""]
    /\ tcalls' = <<>>
    /\ tresp' = <<>>
    /\ tsessions' = <<>>
    /\ tcloses' = tcloses + 1
    /\ tsent' = <<>>
    /\ tconn' = "closed"
    /\ \E e \in IF tconn = "open" THEN {Nil, CloseError} ELSE ClosedCloseOutcomes :
         terr' = e
    /\ tpc' = "done"
    /\ UNCHANGED listing
    /\ UNCHANGED diagVars
    /\ UNCHANGED <<waitVars, upSince>>

Tab_SetTitle ==
    /\ tpc = "idle"
    /\ top' = "SetTitle"
    /\ tsessions' = <<>>
    /\ tresp' = <<>>
    /\ \E t \in Tabs, s \in Titles, ok \in CallOk :
         /\ ttab' = t
         /\ tcalls' = <<Request("InvokeFunctionRequest", <<t.id>>, <<>>, FALSE,
                                <<"iterm2.set_title(title: ", s, ")">>)>>
         /\ tsent' = <<ok>>
         /\ terr' = setTitleResult(ok)
    /\ tpc' = "done"
    /\ UNCHANGED <<listing, tconn, tcloses>>
    /\ UNCHANGED diagVars
    /\ UNCHANGED <<waitVars, upSince>>

\* Window.CreateTab: as CreateWindow, for a window
Window_CreateTab ==
    /\ tpc = "idle"
    /\ top' = "Window.CreateTab"
    /\ tsessions' = <<>>
    /\ \E w \in WindowIds, ok \in CallOk :
         /\ tcalls' = <<Request("CreateTabRequest", <<w>>, <<>>, FALSE, "")>>
         /\ tsent' = <<ok>>
         /\ IF ok
            THEN \E s \in CreateTabStatuses :
                    /\ tresp' = <<s>>
                    /\ terr' = IF s # "OK"
                               THEN StatusError("unexpected tab status", ":", s)
                               ELSE Nil
            ELSE /\ tresp' = <<>>
                 /\ terr' = WrapTransport("could not create tab", TransportError)
    /\ tpc' = "done"
    /\ UNCHANGED <<listing, ttab, tconn, tcloses>>
    /\ UNCHANGED diagVars
    /\ UNCHANGED <<waitVars, upSince>>

\* An operation of a Session proxy: one request naming the session.
Session_Operation ==
    /\ tpc = "idle"
    /\ top' = "Session"
    /\ tsessions' = <<>>
    /\ tresp' = <<>>
    /\ \E s \in SessionIds, ok \in CallOk :
         /\ tcalls' = <<Request("SessionRequest", <<s>>, <<>>, FALSE, "")>>
         /\ tsent' = <<ok>>
         /\ terr' = IF ok THEN Nil
                    ELSE WrapTransport("session operation failed", TransportError)
    /\ tpc' = "done"
    /\ UNCHANGED <<listing, ttab, tconn, tcloses>>
    /\ UNCHANGED diagVars
    /\ UNCHANGED <<waitVars, upSince>>

AppNext ==
    \/ App_Activate
    \/ App_CreateWindow
    \/ App_ListWindows
    \/ App_SelectMenuItem
    \/ App_Close
    \/ Window_CreateTab
    \/ Tab_SetTitle
    \/ Tab_ListSessions
    \/ Tab_SetColor
    \/ Tab_Close
    \/ Session_Operation
    \/ Tab_Return

AppSpec == AppInit /\ [][AppNext]_vars

(***************************************************************************)
(* WaitForITerm2.  Time is counted in units of 100ms from the call; the    *)
(* ticker fires every PollInterval units and holds at most one tick for a  *)
(* receiver that is busy.  Time passes only while the function is blocked: *)
(* in the select, or in a probe (pgrep), which takes up to MaxProbeTime.   *)
(***************************************************************************)
PollInterval == 5

MaxTimeout == 7

MaxProbeTime == 1

\* fmt.Errorf("timeout waiting for iTerm2 to start after %v", timeout)
TimeoutError(t) ==
    [obj |-> "fmt.Errorf", unwraps |-> "none",
     msg |-> <<"timeout waiting for iTerm2 to start after", ToString(t)>>]

\* The clock never found past the deadline.
NowAfter_Never(d) == {FALSE}

\* time.Now().After(deadline).  The clock is read a fraction of a unit after the
\* instant counted in now, so at equality of the whole units either answer is
\* possible.
NowAfter(d) == IF now = d THEN BOOLEAN ELSE {now > d}

WaitInit ==
    /\ running \in BOOLEAN
    /\ upSince = IF running THEN 0 ELSE -1
    /\ socket = FALSE
    /\ homeDir = TRUE
    /\ DiagIdle
    /\ TabIdle
    /\ WaitIdle

\* deadline := time.Now().Add(timeout); ticker := time.NewTicker(500ms)
CallWaitForITerm2 ==
    /\ op = "idle"
    /\ \E t \in 0..MaxTimeout :
         /\ timeout' = t
         /\ deadline' = now + t
    /\ op' = "WaitForITerm2"
    /\ pc' = "w_first"
    /\ UNCHANGED <<running, socket, homeDir, probes, cpErr, connErr, conn,
                   attempts, closeErr, ret, retApp>>
    /\ UNCHANGED <<now, tickPending, ticks, busy, upSince>>
    /\ UNCHANGED tabVars

TimePasses ==
    /\ op = "WaitForITerm2"
    /\ \/ pc = "w_select" /\ ~tickPending
       \/ pc \in {"w_first", "w_probe"} /\ busy < MaxProbeTime
    /\ now' = now + 1
    /\ tickPending' = (tickPending \/ (now + 1) % PollInterval = 0)
    /\ busy' = IF pc = "w_select" THEN busy ELSE busy + 1
    /\ UNCHANGED <<timeout, deadline, ticks, upSince>>
    /\ UNCHANGED diagVars
    /\ UNCHANGED tabVars

WaitForITerm2_First_Skipped ==
    /\ pc = "w_first"
    /\ probes' = probes
    /\ busy' = 0
    /\ ret' = ret
    /\ pc' = "w_select"
    /\ UNCHANGED <<running, socket, homeDir, op, cpErr, connErr, conn, attempts,
                   closeErr, retApp>>
    /\ UNCHANGED <<now, timeout, deadline, tickPending, ticks, upSince>>
    /\ UNCHANGED tabVars

\* Check immediately first: if isITerm2Running() { return nil }
WaitForITerm2_First ==
    /\ pc = "w_first"
    /\ probes' = Append(probes, Probe("isITerm2Running", isITerm2Running))
    /\ busy' = 0
    /\ IF isITerm2Running
       THEN ret' = Nil /\ pc' = "done"
       ELSE ret' = ret /\ pc' = "w_select"
    /\ UNCHANGED <<running, socket, homeDir, op, cpErr, connErr, conn, attempts,
                   closeErr, retApp>>
    /\ UNCHANGED <<now, timeout, deadline, tickPending, ticks, upSince>>
    /\ UNCHANGED tabVars

\* case <-ticker.C:
WaitForITerm2_Tick ==
    /\ pc = "w_select"
    /\ tickPending
    /\ tickPending' = FALSE
    /\ ticks' = ticks + 1
    /\ pc' = "w_deadline"
    /\ UNCHANGED <<running, socket, homeDir, op, probes, cpErr, connErr, conn,
                   attempts, closeErr, ret, retApp>>
    /\ UNCHANGED <<now, timeout, deadline, busy, upSince>>
    /\ UNCHANGED tabVars

\* The tick's probe made whatever the clock says.
WaitForITerm2_Deadline_NoCheck ==
    /\ pc = "w_deadline"
    /\ ret' = ret
    /\ pc' = "w_probe"
    /\ UNCHANGED <<running, socket, homeDir, op, probes, cpErr, connErr, conn,
                   attempts, closeErr, retApp>>
    /\ UNCHANGED <<now, timeout, deadline, tickPending, ticks, busy, upSince>>
    /\ UNCHANGED tabVars

\* if time.Now().After(deadline) { return timeout error }
WaitForITerm2_Deadline ==
    /\ pc = "w_deadline"
    /\ \E after \in NowAfter(deadline) :
         IF after
         THEN ret' = TimeoutError(timeout) /\ pc' = "done"
         ELSE ret' = ret /\ pc' = "w_probe"
    /\ UNCHANGED <<running, socket, homeDir, op, probes, cpErr, connErr, conn,
                   attempts, closeErr, retApp>>
    /\ UNCHANGED <<now, timeout, deadline, tickPending, ticks, busy, upSince>>
    /\ UNCHANGED tabVars

\* if isITerm2Running() { return nil }
WaitForITerm2_Probe ==
    /\ pc = "w_probe"
    /\ probes' = Append(probes, Probe("isITerm2Running", isITerm2Running))
    /\ busy' = 0
    /\ IF isITerm2Running
       THEN ret' = Nil /\ pc' = "done"
       ELSE ret' = ret /\ pc' = "w_select"
    /\ UNCHANGED <<running, socket, homeDir, op, cpErr, connErr, conn, attempts,
                   closeErr, retApp>>
    /\ UNCHANGED <<now, timeout, deadline, tickPending, ticks, upSince>>
    /\ UNCHANGED tabVars

WaitNext ==
    \/ ProcessStarts
    \/ ProcessExits
    \/ CallWaitForITerm2
    \/ TimePasses
    \/ WaitForITerm2_First
    \/ WaitForITerm2_Tick
    \/ WaitForITerm2_Deadline
    \/ WaitForITerm2_Probe

WaitSpec == WaitInit /\ [][WaitNext]_vars

(***************************************************************************)
(* WaitForITerm2 scheduled: the goroutine takes its next step, the clock   *)
(* advances while it is blocked, and the ticker keeps delivering ticks.    *)
(***************************************************************************)
WaitFairSpec ==
    /\ WaitSpec
    /\ WF_vars(TimePasses)
    /\ WF_vars(WaitForITerm2_First)
    /\ WF_vars(WaitForITerm2_Tick)
    /\ WF_vars(WaitForITerm2_Deadline)
    /\ WF_vars(WaitForITerm2_Probe)

(***************************************************************************)
(* Properties of the diagnostics.                                          *)
(***************************************************************************)
\* CheckPrerequisites, called directly or by RequestPermission, has returned.
CheckPrerequisitesReturned ==
    /\ op \in {"CheckPrerequisites", "RequestPermission"}
    /\ pc \notin {"cp_running", "cp_socket", "cp_recheck"}

LivenessProbes == SelectSeq(probes, LAMBDA p : p.what = "isITerm2Running")

\* The lower-cased text of err has the phrase.
TextHas(err, phrase) == \E i \in 1..Len(err.msg) : ToLower(err.msg[i]) = phrase

NewAppFailed == op = "NewApp" /\ pc = "done" /\ connErr # Nil

RequestPermissionReturned == op = "RequestPermission" /\ pc = "done"

\* C1: CheckPrerequisites all of whose liveness probes found the process not
\* running returns a NotRunning failure and never EndpointDisabled, whatever the
\* state of the socket file.
C1_NotRunningNeverEndpointDisabled ==
    (/\ CheckPrerequisitesReturned
     /\ \A i \in 1..Len(LivenessProbes) : ~LivenessProbes[i].saw)
    => /\ errorsIs(cpErr, ErrITerm2NotRunning)
       /\ ~errorsIs(cpErr, ErrPythonAPIDisabled)
       /\ cpErr # Nil

C1_Witness ==
    /\ op = "CheckPrerequisites"
    /\ pc = "done"
    /\ probes = <<Probe("isITerm2Running", FALSE)>>
    /\ socket
    /\ homeDir
    /\ errorsIs(ret, ErrITerm2NotRunning)

\* C2: EndpointDisabled is returned only if a liveness probe made after the
\* socket was seen absent found the process running; a process seen running by
\* the first probe and gone at the re-check gives NotRunning.
C2_EndpointDisabledOnlyAfterRecheck ==
    CheckPrerequisitesReturned =>
        /\ errorsIs(cpErr, ErrPythonAPIDisabled) =>
              \E i, j \in 1..Len(probes) :
                  /\ i < j
                  /\ probes[i] = Probe("isPythonAPIEnabled", FALSE)
                  /\ probes[j] = Probe("isITerm2Running", TRUE)
        /\ (/\ Len(LivenessProbes) = 2
            /\ LivenessProbes[1].saw
            /\ ~LivenessProbes[2].saw) => errorsIs(cpErr, ErrITerm2NotRunning)

C2_Witness ==
    /\ op = "CheckPrerequisites"
    /\ pc = "done"
    /\ probes = <<Probe("isITerm2Running", TRUE), Probe("isPythonAPIEnabled", FALSE),
                  Probe("isITerm2Running", FALSE)>>
    /\ errorsIs(ret, ErrITerm2NotRunning)

\* C3: a connection error whose lower-cased text has "no such file or directory"
\* or "connection refused" is classified by one liveness probe: NotRunning when
\* it finds the process not running, EndpointDisabled when it finds it running.
C3_SocketErrorDecidedByLiveness ==
    (/\ NewAppFailed
     /\ \/ TextHas(connErr, "no such file or directory")
        \/ TextHas(connErr, "connection refused"))
    => /\ Len(probes) = 1
       /\ probes[1].what = "isITerm2Running"
       /\ probes[1].saw => Category(ret) = "EndpointDisabled"
       /\ ~probes[1].saw => Category(ret) = "NotRunning"

C3_Witness ==
    /\ NewAppFailed
    /\ connErr.msg = <<"Connection Refused", "declined">>
    /\ probes = <<Probe("isITerm2Running", TRUE)>>
    /\ Category(ret) = "EndpointDisabled"

\* C4 as claimed: a connection error whose text has "declined" or "not
\* authorized" is PermissionDenied whatever else the text contains.
C4_PermissionWhateverElse ==
    (/\ NewAppFailed
     /\ \/ TextHas(connErr, "declined")
        \/ TextHas(connErr, "not authorized"))
    => Category(ret) = "PermissionDenied"

\* C4 as amended: a connection error whose text has "declined" or "not
\* authorized", and none of "no such file or directory", "connection refused",
\* "python api", is PermissionDenied whether the process is running or not.
C4_PermissionUnlessEarlierPattern ==
    (/\ NewAppFailed
     /\ \/ TextHas(connErr, "declined")
        \/ TextHas(connErr, "not authorized")
     /\ ~TextHas(connErr, "no such file or directory")
     /\ ~TextHas(connErr, "connection refused")
     /\ ~TextHas(connErr, "python api"))
    => /\ Category(ret) = "PermissionDenied"
       /\ probes = <<>>

C4_Witness ==
    /\ NewAppFailed
    /\ connErr.msg = <<"some random error", "Not Authorized">>
    /\ ~running
    /\ Category(ret) = "PermissionDenied"

RecognisedPhrases ==
    {"no such file or directory", "connection refused", "python api",
     "permission", "denied", "declined", "not authorized", "authorization"}

\* C5: a connection error matching none of the classifier's patterns comes back
\* as the very same error value, in none of the three categories.
C5_UnknownErrorUnchanged ==
    (/\ NewAppFailed
     /\ \A p \in RecognisedPhrases : ~TextHas(connErr, p))
    => /\ ret = connErr
       /\ \A s \in Sentinels : ~errorsIs(ret, s)

C5_Witness ==
    /\ NewAppFailed
    /\ connErr.msg = <<"some random error", "is not enabled">>
    /\ ret = connErr
    /\ ret.obj = "client.New"

\* C6: when the connection attempt of RequestPermission fails, RequestPermission
\* returns the category that connection-open classification (NewApp) gives that
\* same error, for one of the answers the liveness probe can give.
C6_RequestPermissionClassifiesLikeNewApp ==
    (RequestPermissionReturned /\ connErr # Nil)
    => \E isRunning \in BOOLEAN :
           Category(ret) = Category(enhanceConnectionError(connErr, isRunning))

\* C7: when RequestPermission returns, the Connection it opened is closed and is
\* not handed to the caller, and a failed close leaves a granted permission a
\* success.
C7_RequestPermissionLeaksNoConnection ==
    RequestPermissionReturned =>
        /\ conn # "open"
        /\ ~retApp
        /\ (attempts > 0 /\ connErr = Nil) => (conn = "closed" /\ ret = Nil)
        /\ conn = "closed" => (attempts = 1 /\ connErr = Nil)

C7_Witness ==
    /\ RequestPermissionReturned
    /\ conn = "closed"
    /\ closeErr = CloseError
    /\ ret = Nil

\* C8: RequestPermission attempts a connection only after CheckPrerequisites
\* returned success; when CheckPrerequisites fails, its error is returned as it
\* is and no connection is attempted.
C8_PrerequisitesBeforeConnection ==
    op = "RequestPermission" =>
        /\ attempts > 0 => (CheckPrerequisitesReturned /\ cpErr = Nil)
        /\ (pc = "done" /\ cpErr # Nil) =>
               (ret = cpErr /\ attempts = 0 /\ conn = "none")

C8_Witness ==
    /\ RequestPermissionReturned
    /\ errorsIs(cpErr, ErrPythonAPIDisabled)
    /\ ret = cpErr
    /\ attempts = 0


(***************************************************************************)
(* Properties of Tab.ListSessions.                                         *)
(***************************************************************************)
ListSessionsSucceeded == tpc = "done" /\ top = "ListSessions" /\ terr = Nil

\* The places (window index, tab index) of the response a tab proxy names.
PlacesOf(lsr, t) ==
    {p \in (1..Len(lsr)) \X (1..MaxElems) :
        /\ p[2] <= Len(lsr[p[1]].tabs)
        /\ lsr[p[1]].id = t.windowID
        /\ lsr[p[1]].tabs[p[2]].id = t.id}

AllPlaces(lsr) ==
    {p \in (1..Len(lsr)) \X (1..MaxElems) : p[2] <= Len(lsr[p[1]].tabs)}

\* The session identifiers anywhere in the pane tree of the tab at place p.
SessionsAt(lsr, p) ==
    LET links == lsr[p[1]].tabs[p[2]].links IN
        {links[k].uniqueIdentifier : k \in {k \in 1..Len(links) : links[k].child = "session"}}
        \cup UNION {{links[k].links[j].uniqueIdentifier : j \in 1..Len(links[k].links)} :
                       k \in 1..Len(links)}

\* C9: every Session proxy Tab.ListSessions returns is made from a root link of
\* a tab of the response whose window_id is the proxy's windowID and whose tab_id
\* is the proxy's id; a session the response has only under another window or
\* another tab is not returned.
C9_OnlySessionsOfTheTab ==
    ListSessionsSucceeded =>
        /\ \A i \in 1..Len(tsessions) :
              \E p \in PlacesOf(listing, ttab) :
                  \E k \in 1..Len(listing[p[1]].tabs[p[2]].links) :
                      tsessions[i].id = listing[p[1]].tabs[p[2]].links[k].uniqueIdentifier
        /\ \A s \in SessionIds :
              (/\ \E p \in AllPlaces(listing) : s \in SessionsAt(listing, p)
               /\ \A p \in PlacesOf(listing, ttab) : s \notin SessionsAt(listing, p))
              => \A i \in 1..Len(tsessions) : tsessions[i].id # s

C9_Witness ==
    /\ ListSessionsSucceeded
    /\ ttab = [id |-> "t1", windowID |-> "w1"]
    /\ listing = <<[id |-> "w2", tabs |-> <<[id |-> "t1", links |-> <<SessionLink("s2")>>]>>],
                   [id |-> "w1", tabs |-> <<[id |-> "t1", links |-> <<SessionLink("s1")>>]>>]>>
    /\ tsessions = <<[id |-> "s1"]>>

\* The sessions of a pane tree in the order of its traversal.
FlattenLinks(links) ==
    Concat([k \in 1..Len(links) |->
        IF links[k].child = "session" THEN <<links[k].uniqueIdentifier>>
        ELSE [j \in 1..Len(links[k].links) |-> links[k].links[j].uniqueIdentifier]])

FlattenTab(lsr, t) ==
    Concat([w \in 1..Len(lsr) |->
        IF lsr[w].id # t.windowID THEN <<>>
        ELSE Concat([i \in 1..Len(lsr[w].tabs) |->
            IF lsr[w].tabs[i].id # t.id THEN <<>>
            ELSE FlattenLinks(lsr[w].tabs[i].links)])])

\* C10: Tab.ListSessions returns one Session proxy for every session anywhere in
\* the tab's pane tree, nested split nodes included, in the order of the server's
\* tree traversal.
C10_ListSessionsFlattensPaneTree ==
    ListSessionsSucceeded =>
        [i \in 1..Len(tsessions) |-> tsessions[i].id] = FlattenTab(listing, ttab)

(***************************************************************************)
(* Properties of Tab.SetColor and Tab.Close.                               *)
(***************************************************************************)
SetColorReturned == tpc = "done" /\ top = "SetColor"

CloseReturned == tpc = "done" /\ top = "Close"

\* The operation failed because a send returned a transport error.
TransportFailed == terr # Nil /\ stringsContains(terr.msg, TransportError.msg)

\* The response has the proxy's tab, and every tab it names has no links.
TabWithoutLinks ==
    /\ PlacesOf(listing, ttab) # {}
    /\ \A p \in PlacesOf(listing, ttab) : listing[p[1]].tabs[p[2]].links = <<>>

\* C11: a Tab.SetColor that succeeds has sent exactly two requests, the session
\* listing and then one SetProfilePropertyRequest; that request targets the first
\* session of the list resolved for the tab and carries exactly two assignments,
\* "Tab Color" and then "Use Tab Color" with the value true.
C11_SetColorTwoRequests ==
    (SetColorReturned /\ terr = Nil) =>
        /\ Len(tcalls) = 2
        /\ tcalls[1].req = "ListSessionsRequest"
        /\ tcalls[2].req = "SetProfilePropertyRequest"
        /\ Len(tsessions) >= 1
        /\ tcalls[2].target = <<tsessions[1].id>>
        /\ Len(tcalls[2].assignments) = 2
        /\ tcalls[2].assignments[1].key = "Tab Color"
        /\ tcalls[2].assignments[2] = [key |-> "Use Tab Color", jsonValue |-> <<"true">>]

C11_Witness ==
    /\ SetColorReturned
    /\ terr = Nil
    /\ tresp = <<"OK">>
    /\ ttab = [id |-> "t1", windowID |-> "w1"]
    /\ [i \in 1..Len(tsessions) |-> tsessions[i].id] = <<"s2", "s1">>
    /\ tcalls[2].target = <<"s2">>
    /\ tcalls[2].assignments[1].jsonValue =
           <<"Red Component", "0", "Green Component", "501961",
             "Blue Component", "1000000">>

\* C12: on a tab whose entry in the response has no links, a Tab.ListSessions
\* whose send succeeds returns the empty sequence and no error, and a
\* Tab.SetColor whose listing send succeeds returns the "has no sessions" failure
\* having sent the listing request and nothing else.
C12_TabWithoutSessions ==
    (/\ tpc = "done"
     /\ TabWithoutLinks
     /\ ~TransportFailed) =>
        /\ top = "ListSessions" => (tsessions = <<>> /\ terr = Nil)
        /\ top = "SetColor" =>
              /\ terr # Nil
              /\ terr.msg = <<"tab", ttab.id, "has no sessions">>
              /\ Len(tcalls) = 1
              /\ tcalls[1].req = "ListSessionsRequest"

C12_Witness ==
    /\ SetColorReturned
    /\ TabWithoutLinks
    /\ ttab = [id |-> "t2", windowID |-> "w1"]
    /\ terr.msg = <<"tab", "t2", "has no sessions">>
    /\ tcalls = <<ListSessionsRequest>>
    /\ Len(listing) = 1
    /\ Len(listing[1].tabs) = 2
    /\ listing[1].tabs[1].links # <<>>

\* C13: a Tab.SetColor whose SetProfilePropertyRequest is answered with a status
\* other than OK returns a failure.
C13_SetColorNonOkStatusFails ==
    (/\ SetColorReturned
     /\ Len(tcalls) = 2
     /\ tresp # <<>>
     /\ tresp[1] # "OK") => terr # Nil

\* C14: Tab.Close sends exactly one request, a CloseRequest naming the tab's id
\* alone with force false; when the answer's status is OK it returns nil, and
\* when it is any other status it returns a failure whose message has the
\* status.
C14_CloseByStatus ==
    CloseReturned =>
        /\ Len(tcalls) = 1
        /\ tcalls[1].req = "CloseRequest"
        /\ tcalls[1].target = <<ttab.id>>
        /\ tcalls[1].force = FALSE
        /\ tresp = <<"OK">> => terr = Nil
        /\ (tresp # <<>> /\ tresp[1] # "OK") =>
              /\ terr # Nil
              /\ \E i \in 1..Len(terr.msg) : terr.msg[i] = tresp[1]

C14_Witness ==
    /\ CloseReturned
    /\ ttab.id = "t2"
    /\ tresp = <<"USER_DECLINED">>
    /\ terr.msg = <<"failed to close tab", "t2", ": status", "USER_DECLINED">>
    /\ tcalls = <<[req |-> "CloseRequest", target |-> <<"t2">>, assignments |-> <<>>,
                   force |-> FALSE, invocation |-> ""]>>

(***************************************************************************)
(* Properties of one diagnosis as a whole.                                 *)
(***************************************************************************)
SawNotRunning == \E i \in 1..Len(LivenessProbes) : ~LivenessProbes[i].saw

\* C18: within one CheckPrerequisites call, and within the classification of one
\* raw connection error by NewApp, once a liveness probe has found the process
\* not running the category returned is NotRunning, never EndpointDisabled or
\* PermissionDenied.
C18_NotRunningProbeDecides ==
    /\ (CheckPrerequisitesReturned /\ SawNotRunning) =>
           Category(cpErr) = "NotRunning"
    /\ (NewAppFailed /\ SawNotRunning) =>
           Category(ret) = "NotRunning"

C18_Witness ==
    /\ NewAppFailed
    /\ connErr.msg = <<"Python API", "connection refused">>
    /\ probes = <<Probe("isITerm2Running", FALSE)>>
    /\ Category(ret) = "NotRunning"
    /\ socket

\* C19: every error that NewApp's classification or RequestPermission returns
\* with a category for a failed connection attempt has the text of the raw
\* error, as it came, as a part of its message.
C19_CategorisedErrorCarriesRawText ==
    (/\ op \in {"NewApp", "RequestPermission"}
     /\ pc = "done"
     /\ connErr # Nil
     /\ Category(ret) \in {"NotRunning", "EndpointDisabled", "PermissionDenied"})
    => /\ stringsContains(ret.msg, connErr.msg)
       /\ SubSeq(ret.msg, 3, Len(ret.msg)) = connErr.msg

C19_Witness ==
    /\ RequestPermissionReturned
    /\ connErr.msg = <<"Not Authorized", "Declined">>
    /\ Category(ret) = "PermissionDenied"
    /\ ret.msg = <<SentinelText(ErrPermissionDenied), ": ", "Not Authorized", "Declined">>

(***************************************************************************)
(* Properties of WaitForITerm2.                                            *)
(***************************************************************************)
WaitReturned == op = "WaitForITerm2" /\ pc = "done"

TimedOut == WaitReturned /\ ret = TimeoutError(timeout)

\* C15: when the first liveness probe of WaitForITerm2 finds the process
\* running, the call has returned nil with that one probe and without receiving
\* a tick, for every timeout, zero included.
C15_AlreadyRunningReturnsAtOnce ==
    (/\ op = "WaitForITerm2"
     /\ Len(probes) >= 1
     /\ probes[1].saw) =>
        /\ pc = "done"
        /\ ret = Nil
        /\ Len(probes) = 1
        /\ ticks = 0
        /\ now <= MaxProbeTime

C15_Witness ==
    /\ WaitReturned
    /\ timeout = 0
    /\ Len(probes) = 1
    /\ probes[1].saw
    /\ ret = Nil
    /\ ticks = 0

\* C16: when WaitForITerm2 returns and the process has been running since a
\* moment before the deadline, the result is nil and not the timeout failure.
C16_StartedBeforeDeadlineReturnsNil ==
    (/\ WaitReturned
     /\ running
     /\ upSince >= 0
     /\ upSince < deadline) => ret = Nil

\* C17: when every probe found the process not running, the timeout failure is
\* returned no later than the deadline plus the time of one probe.
C17_TimeoutWithinMargin ==
    (/\ TimedOut
     /\ \A i \in 1..Len(probes) : ~probes[i].saw) =>
        now <= deadline + MaxProbeTime

(***************************************************************************)
(* Properties of the shared Connection.                                    *)
(***************************************************************************)
\* An operation called after Application.Close closed the Connection has
\* returned: any operation but the Close that closed it.
LaterCallReturned ==
    /\ tconn = "closed"
    /\ tpc = "done"
    /\ top = "App.Close" => tcloses >= 2

C21_ConnectionClosedOnce ==
    tcloses <= 1

\* C22: an Application.Activate or Application.SelectMenuItem whose response
\* carries a status other than OK returns a failure.
C22_NonOkStatusFails ==
    (/\ tpc = "done"
     /\ top \in {"Activate", "SelectMenuItem"}
     /\ tresp # <<>>
     /\ tresp[1] # "OK") => terr # Nil

(***************************************************************************)
(* Properties of CheckPrerequisites as a whole.                            *)
(***************************************************************************)
\* C23: CheckPrerequisites returns nil, a NotRunning failure or an
\* EndpointDisabled failure and nothing else, also when the socket path cannot
\* be determined; it returns nil only after one probe that found the process
\* running followed by one probe that found the socket.
C23_ThreeOutcomes ==
    CheckPrerequisitesReturned =>
        /\ Category(cpErr) \in {"Ok", "NotRunning", "EndpointDisabled"}
        /\ cpErr = Nil =>
              probes = <<Probe("isITerm2Running", TRUE),
                         Probe("isPythonAPIEnabled", TRUE)>>
        /\ (cpErr # Nil /\ LivenessProbes[Len(LivenessProbes)].saw) =>
              Category(cpErr) = "EndpointDisabled"

C23_Witness ==
    /\ op = "CheckPrerequisites"
    /\ pc = "done"
    /\ ~homeDir
    /\ Len(probes) = 3
    /\ ret.msg = <<SentinelText(ErrPythonAPIDisabled), ": ",
                   "could not determine socket path">>
    /\ Category(ret) = "EndpointDisabled"

(***************************************************************************)
(* Properties of the polling loop of WaitForITerm2.                        *)
(***************************************************************************)
\* C24: every liveness probe of WaitForITerm2 after the first is made on a tick
\* of its own, after the deadline check of that tick, at a time (now - busy,
\* the time the probe was started) at which the deadline had not passed; so no
\* probe is made, and no nil returned, on a tick at which the deadline has
\* passed.
C24_DeadlineCheckedBeforeProbe ==
    [][(/\ op = "WaitForITerm2"
        /\ ticks >= 1
        /\ \/ Len(probes') > Len(probes)
           \/ pc # "done" /\ pc' = "done" /\ ret' = Nil) =>
           /\ pc = "w_probe"
           /\ ticks = Len(probes)
           /\ Len(probes') = Len(probes) + 1
           /\ now - busy <= deadline]_vars

C24_Witness ==
    /\ WaitReturned
    /\ ret = Nil
    /\ timeout = PollInterval + 1
    /\ ticks = 1
    /\ Len(probes) = 2
    /\ ~probes[1].saw
    /\ probes[2].saw

\* The time of the first tick after time d.
NextTickAfter(d) == (d \div PollInterval + 1) * PollInterval

\* C25: for every timeout and every behaviour of the process, WaitForITerm2 once
\* called eventually returns, given that time advances and ticks arrive; and it
\* has returned by the time of the first tick after the deadline.
C25_ReturnsByFirstTickAfterDeadline ==
    /\ (op = "WaitForITerm2") ~> (pc = "done")
    /\ [](op = "WaitForITerm2" => now <= NextTickAfter(deadline))

C25_Witness ==
    /\ TimedOut
    /\ timeout = PollInterval + 2
    /\ now = 2 * PollInterval
    /\ ticks = 2
    /\ Len(probes) = 2
    /\ ~running
    /\ upSince = -1

(***************************************************************************)
(* Properties of the entity operations as a whole.                         *)
(***************************************************************************)
EntityOperations ==
    {"CreateWindow", "ListWindows", "SelectMenuItem", "Activate",
     "SetTitle", "ListSessions", "SetColor", "Close"}

SendFailed == \E i \in 1..Len(tsent) : ~tsent[i]

\* C26: when a send of an entity operation returned a transport error, the
\* operation returns a failure whose text has the text of that error and that
\* has none of the three categories, and the failed send is the last request of
\* the operation; a SetColor whose listing failed has sent the listing only.
C26_TransportErrorEndsOperation ==
    (/\ tpc = "done"
     /\ top \in EntityOperations
     /\ SendFailed) =>
        /\ terr # Nil
        /\ stringsContains(terr.msg, TransportError.msg)
        /\ Category(terr) = "Other"
        /\ Len(tcalls) = Len(tsent)
        /\ \A i \in 1..Len(tsent) : tsent[i] <=> i < Len(tsent)
        /\ top # "SetColor" => tsessions = <<>>
        /\ (top = "SetColor" /\ ~tsent[1]) => tcalls = <<ListSessionsRequest>>

C26_Witness ==
    /\ tpc = "done"
    /\ tconn = "open"
    /\ top = "SetColor"
    /\ ttab = [id |-> "t1", windowID |-> "w1"]
    /\ tsent = <<FALSE>>
    /\ tcalls = <<ListSessionsRequest>>
    /\ terr.msg = <<"could not list sessions for tab", ": ",
                    "error listing sessions for tab", ": ", "transport error">>

(***************************************************************************)
(* Properties of a Tab proxy whose tab the server has closed.               *)
(***************************************************************************)
\* An operation on the proxy of tab t1 has returned, called after the server
\* closed that tab, with every send answered and, for Close, with one status:
\* the status of a later Close is never OK, the server having no such tab.
LaterCallOnClosedTab ==
    /\ tpc = "done"
    /\ top \in {"Close", "ListSessions", "SetColor"}
    /\ ttab = [id |-> "t1", windowID |-> "w1"]
    /\ ~TabIdExists(listing, "t1")
    /\ \A i \in 1..Len(tsent) : tsent[i]
    /\ top = "Close" => (Len(tresp) = 1 /\ tresp[1] # "OK")

\* C27: every Close, ListSessions or SetColor called on a Tab proxy after its
\* tab was closed on the server returns a failure that reports the server's
\* not-found condition.
C27_ClosedTabReportsNotFound ==
    LaterCallOnClosedTab =>
        /\ terr # Nil
        /\ \E i \in 1..Len(terr.msg) : terr.msg[i] = "NOT_FOUND"

(***************************************************************************)
(* Properties of the identifiers of the proxies.                           *)
(***************************************************************************)
\* The session identifiers the response has anywhere under the proxy's tab.
SessionIdsOfTab == UNION {SessionsAt(listing, p) : p \in PlacesOf(listing, ttab)}

\* C28: every Session proxy Tab.ListSessions returns, and the session a
\* Tab.SetColor request targets, has an identifier that the response has as a
\* session identifier of that tab; none has an empty identifier, also when a
\* root link of the tab is a nested node.
C28_ProxyIdsComeFromTheServer ==
    (tpc = "done" /\ top \in {"ListSessions", "SetColor"}) =>
        /\ \A i \in 1..Len(tsessions) : tsessions[i].id \in SessionIdsOfTab
        /\ Len(tcalls) = 2 => tcalls[2].target[1] \in SessionIdsOfTab

(***************************************************************************)
(* Properties of the classification as a decision table.                   *)
(***************************************************************************)
HasSocketPattern(err) ==
    TextHas(err, "no such file or directory") \/ TextHas(err, "connection refused")

HasEndpointPattern(err) == TextHas(err, "python api")

HasPermissionPattern(err) ==
    \E p \in {"permission", "denied", "declined", "not authorized", "authorization"} :
        TextHas(err, p)

Categories == {"NotRunning", "EndpointDisabled", "PermissionDenied"}

\* C29: NewApp classifies a raw connection error by the first row that matches:
\* the socket patterns (decided by the liveness probe), then "python api"
\* (EndpointDisabled), then the permission patterns (PermissionDenied), else the
\* error passes through unchanged.  An error with "python api" and a permission
\* pattern is EndpointDisabled in RequestPermission as well, and in both every
\* error gets either one category or passes through unchanged.
C29_OrderedDecisionTable ==
    /\ NewAppFailed =>
          /\ IF HasSocketPattern(connErr)
             THEN /\ Len(probes) = 1
                  /\ Category(ret) =
                        IF probes[1].saw THEN "EndpointDisabled" ELSE "NotRunning"
             ELSE /\ probes = <<>>
                  /\ IF HasEndpointPattern(connErr)
                     THEN Category(ret) = "EndpointDisabled"
                     ELSE IF HasPermissionPattern(connErr)
                          THEN Category(ret) = "PermissionDenied"
                          ELSE ret = connErr
          /\ Category(ret) \in Categories <=> ret # connErr
    /\ (RequestPermissionReturned /\ connErr # Nil) =>
          /\ (HasEndpointPattern(connErr) /\ HasPermissionPattern(connErr)) =>
                Category(ret) = "EndpointDisabled"
          /\ Category(ret) \in Categories <=> ret # connErr
          /\ Category(ret) # "Ok"

C29_Witness ==
    /\ RequestPermissionReturned
    /\ connErr.msg = <<"denied", "Python API">>
    /\ Category(ret) = "EndpointDisabled"
    /\ ret.msg = <<SentinelText(ErrPythonAPIDisabled), ": ", "denied", "Python API">>

(***************************************************************************)
(* Properties of Tab.Close for every answer.                               *)
(***************************************************************************)
\* C30: Tab.Close returns a failure exactly when its send returned a transport
\* error or the first status of the answer is not OK; an answer without any
\* status gives nil, and the statuses after the first change nothing.
C30_CloseFailsExactlyWhen ==
    CloseReturned =>
        /\ Len(tsent) = 1
        /\ terr # Nil <=> (~tsent[1] \/ (Len(tresp) > 0 /\ tresp[1] # "OK"))
        /\ (tsent[1] /\ tresp = <<>>) => terr = Nil

C30_Witness ==
    /\ CloseReturned
    /\ tsent = <<TRUE>>
    /\ tresp = <<"OK", "NOT_FOUND">>
    /\ terr = Nil
    /\ ttab.id = "t1"

====
